---- MODULE Spec2Model ----
(***************************************************************************)
(* Forwarding engine of forward-bot: the dispatch router (forward_message), *)
(* the group aggregator with its debounce timer, the batch canonicalizer   *)
(* and the two send loops (process_media_group's own loop and              *)
(* retry_operation), plus the configuration gate (ConfigManager) and the   *)
(* administrative commands that write it.                                  *)
(*                                                                         *)
(* Scheduling: one asyncio event loop.  Updates are handled one at a time  *)
(* (the Application is built without concurrent updates), job-queue        *)
(* callbacks run beside the update handler.  A step of the model is the    *)
(* code run between two suspension points.  A transport call and the wait  *)
(* for its answer are one step: the code that follows the answer touches   *)
(* no shared state before the next suspension (the back-off sleep).  A     *)
(* timer that comes due leaves the job queue in one step and its callback  *)
(* starts in a later one, within the same second: steps of the update      *)
(* handler that the loop has ready may run in between.                     *)
(***************************************************************************)
EXTENDS Integers, Sequences, FiniteSets, TLC

\* ---------------------------------------------------------------- constants

MEDIA_GROUP_TIMEOUT == 2

MAX_RETRIES == 3

RETRY_DELAY == 1

MAX_MEDIA_GROUP_SIZE == 10

\* ------------------------------------------------------------------- bounds

\* messages the first group's stream may deliver in one run
MaxMsgs == 11

\* messages the second group's stream may deliver in one run
MaxOther == 2

\* failures the transport or the disk may report in one run
MaxFaults == 3

\* messages of the first group's stream in the runs with a failing transport
\* or an administrator
MaxBurst == 2

\* arbitrary arrival orders drawn for the canonicalizer: their length, and
\* the stream messages they are drawn from
MaxLen == 3

PoolSize == 7

\* seconds the clock counts in the timed runs
MaxClock == 6

\* ------------------------------------------------------------------- values

\* Optional[int]: None, or an integer
None == [isint |-> FALSE, v |-> 0]

IntVal(n) == [isint |-> TRUE, v |-> n]

\* identifiers an administrator may type, and chats a message may come from
CmdArgs == {-1, -2, 1}

Chats == {-1, -2, 1}

Groups == {"g1", "g2"}

\* media_group_id of a message that belongs to no group
NoGroup == ""

\* seconds the transport may advise in a RetryAfter
RetryAfters == {3}

Min(a, b) == IF a < b THEN a ELSE b

RECURSIVE Pow2(_)
Pow2(n) == IF n = 0 THEN 1 ELSE 2 * Pow2(n - 1)

\* ----------------------------------------------------------------- messages

Msg(id, chat, date, gid, kind, file, caption) ==
    [message_id |-> id, chat_id |-> chat, date |-> date, media_group_id |-> gid,
     kind |-> kind, file_id |-> file, caption |-> caption]

\* The k-th message of group g's stream.  Server timestamps run against the
\* identifiers (messages 2, 3 are stamped before 1) and tie inside a pair;
\* every third message repeats the file of the one before it and has a caption
\* of its own, every fifth has another caption, every seventh is plain text,
\* every fourth and every sixth is a video.
StreamMsg(g, k, chat) ==
    Msg((IF g = "g1" THEN 100 ELSE 200) + k,
        chat,
        IF k % 4 \in {0, 1} THEN 2 ELSE 1,
        g,
        IF k % 7 = 0 THEN "text"
        ELSE IF k % 4 = 0 \/ k % 6 = 0 THEN "video" ELSE "photo",
        IF k % 3 = 0 THEN k - 1 ELSE k,
        IF k % 3 = 0 THEN "d" ELSE IF k % 5 = 0 THEN "e" ELSE "")

\* messages that belong to no group: a text and a captioned photo
SingleMsgs(chat) ==
    { Msg(901, chat, 1, NoGroup, "text", 0, ""),
      Msg(902, chat, 1, NoGroup, "photo", 50, "c") }

\* ------------------------------------------------------------ ConfigManager

\* validate_config: "ok", or the ValueError it raises
validate_config(cfg) ==
    IF cfg.source_id = cfg.destination_id
    THEN "Source and destination channels cannot be the same"
    ELSE IF ~(cfg.source_id.isint /\ cfg.source_id.v < 0)
    THEN "Invalid source channel ID format"
    ELSE IF ~(cfg.destination_id.isint /\ cfg.destination_id.v < 0)
    THEN "Invalid destination channel ID format"
    ELSE "ok"

\* Python truthiness of an Optional[int]
Truthy(x) == x.isint /\ x.v # 0

\* ------------------------------------------------------ Batch canonicalizer

\* mutant: the sort looks at the message identifier alone
KeyLessById(a, b) == a.message_id < b.message_id

\* sort key of process_media_group: (msg.date.timestamp(), msg.message_id)
KeyLess(a, b) ==
    \/ a.date < b.date
    \/ a.date = b.date /\ a.message_id < b.message_id

\* list.sort is stable: an element goes after everything not greater than it
RECURSIVE InsertSorted(_, _)
InsertSorted(s, m) ==
    IF s = <<>> THEN <<m>>
    ELSE IF KeyLess(m, Head(s)) THEN <<m>> \o s
    ELSE <<Head(s)>> \o InsertSorted(Tail(s), m)

RECURSIVE SortMessages(_)
SortMessages(s) ==
    IF s = <<>> THEN <<>>
    ELSE InsertSorted(SortMessages(SubSeq(s, 1, Len(s) - 1)), s[Len(s)])

\* get_media_type: the media type string, or "" for None
get_media_type(msg) ==
    IF msg.kind \in {"photo", "video", "document", "audio"} THEN msg.kind ELSE ""

\* mutant: the filter keeps every media message, repeats included
UniqueKeepsRepeats(s, seen) == SelectSeq(s, LAMBDA m : get_media_type(m) # "")

\* the duplicate filter: first occurrence of each file_id among media messages
RECURSIVE UniqueFrom(_, _)
UniqueFrom(s, seen) ==
    IF s = <<>> THEN <<>>
    ELSE IF get_media_type(Head(s)) # "" /\ Head(s).file_id \notin seen
    THEN <<Head(s)>> \o UniqueFrom(Tail(s), seen \cup {Head(s).file_id})
    ELSE UniqueFrom(Tail(s), seen)

UniqueMessages(sorted) == UniqueFrom(sorted, {})

\* next((msg.caption for msg in unique_messages if msg.caption), None)
RECURSIVE GroupCaption(_)
GroupCaption(unique) ==
    IF unique = <<>> THEN ""
    ELSE IF Head(unique).caption # "" THEN Head(unique).caption
    ELSE GroupCaption(Tail(unique))

\* mutant: every item keeps the caption of its own message
BuildMediaOwnCaptions(unique) ==
    [i \in 1..Len(unique) |->
        [type |-> unique[i].kind,
         media |-> unique[i].file_id,
         caption |-> unique[i].caption]]

\* the InputMedia list: the group caption on item 0 only
BuildMedia(unique) ==
    [i \in 1..Len(unique) |->
        [type |-> unique[i].kind,
         media |-> unique[i].file_id,
         caption |-> IF i = 1 THEN GroupCaption(unique) ELSE ""]]

Canonicalize(messages) == BuildMedia(UniqueMessages(SortMessages(messages)))

\* get_media_input: the one-item batch of a single media message
get_media_input(msg) ==
    [type |-> msg.kind, media |-> msg.file_id, caption |-> msg.caption]

\* -------------------------------------------------------------------- state

VARIABLES
    config,                  \* ConfigManager.config: source_id, destination_id
    stored,                  \* the configuration file
    media_groups,            \* group id -> buffered messages, in arrival order
    media_group_counts,      \* group id -> tracked count
    scheduled_media_groups,  \* group ids recorded as scheduled
    jobs,                    \* job queue: pending one-shot timers [name, left]
    fired,                   \* groups whose timer has fired, callback yet to start
    handler,                 \* the update handler: idle, or suspended in a send
    flights,                 \* timer callbacks suspended in their send loop
    sent,                    \* environment: messages each stream has delivered
    last,                    \* environment: where each stream ends
    faults,                  \* environment: failures (transport, disk) still to come
    horizon,                 \* environment: how far the clock counts
    clock,                   \* history: seconds since the start, up to horizon
    age,                     \* history: seconds since a group last buffered a message
    stamps,                  \* history: clock at which each buffered message arrived
    consumed,                \* history: message id -> flushes that took it
    ev                       \* history: what the last step did

vars == <<config, stored, media_groups, media_group_counts, scheduled_media_groups,
          jobs, fired, handler, flights, sent, last, faults, horizon, clock, age, stamps,
          consumed, ev>>

aggregator ==
    <<media_groups, media_group_counts, scheduled_media_groups, jobs, fired>>

environment == <<sent, last, faults, horizon>>

NoCall == [op |-> "", chat_id |-> None, media |-> <<>>, message_id |-> 0]

NoErrors == [rate_limit |-> 0, timeout |-> 0, other |-> 0]

NoEv ==
    [kind |-> "none", gid |-> "", trigger |-> "", input |-> <<>>, age |-> 0,
     clock |-> 0, stamps |-> <<>>, chat |-> 0, call |-> NoCall, path |-> "",
     attempt |-> 0, outcome |-> "", retry_after |-> 0, delay |-> 0, result |-> "",
     reason |-> "", errors |-> NoErrors]

Idle ==
    [pc |-> "idle", gid |-> "", call |-> NoCall, attempt |-> 0,
     retry_errors |-> NoErrors]

\* what one transport attempt may answer
Ok == [kind |-> "ok", retry_after |-> 0]

BatchOutcomes ==
    {Ok, [kind |-> "error", retry_after |-> 0], [kind |-> "timeout", retry_after |-> 0]}
    \cup {[kind |-> "rate", retry_after |-> n] : n \in RetryAfters}

\* retry_operation also bounds each attempt with asyncio.wait_for
RetryOutcomes == BatchOutcomes \cup {[kind |-> "wait_timeout", retry_after |-> 0]}

Allowed(out) == out.kind = "ok" \/ faults > 0

Spend(out) == IF out.kind = "ok" THEN faults ELSE faults - 1

\* ---------------------------------------------------------------- send loops

\* process_media_group's loop body: the delay slept after a failed send
BatchDelay(attempt, out) ==
    IF out.kind = "timeout"
    THEN RETRY_DELAY * Pow2(attempt) * 2
    ELSE RETRY_DELAY * Pow2(attempt)

\* mutant: the loop allows one attempt more before giving up
BatchLastLate(attempt) == ~(attempt < MAX_RETRIES)

BatchLast(attempt) == ~(attempt < MAX_RETRIES - 1)

\* One pass of process_media_group's loop: the send to the destination
\* configured now, then break, sleep, or give up.
BatchPass(gid, trigger, media, attempt, out) ==
    LET call   == [op |-> "send_media_group", chat_id |-> config.destination_id,
                   media |-> media, message_id |-> 0]
        result == IF out.kind = "ok" THEN "sent"
                  ELSE IF BatchLast(attempt) THEN "failed" ELSE "sleep"
    IN  [loop |-> [pc |-> "flush", gid |-> gid, call |-> call,
                   attempt |-> attempt + 1, retry_errors |-> NoErrors],
         ev   |-> [NoEv EXCEPT
                      !.kind = "attempt", !.gid = gid, !.trigger = trigger,
                      !.path = "batch", !.call = call, !.attempt = attempt,
                      !.outcome = out.kind, !.retry_after = out.retry_after,
                      !.delay = IF result = "sleep" THEN BatchDelay(attempt, out) ELSE 0,
                      !.result = result]]

\* mutant: the generic back-off grows linearly
RetryDelayLinear(attempt, out) ==
    IF out.kind = "rate"
    THEN out.retry_after * (attempt + 1)
    ELSE RETRY_DELAY * (attempt + 1)

\* retry_operation's loop body: the delay slept after a failed attempt
RetryDelay(attempt, out) ==
    IF out.kind = "rate"
    THEN out.retry_after * (attempt + 1)
    ELSE RETRY_DELAY * Pow2(attempt)

\* retry_errors[...] += 1
Tally(errs, out) ==
    IF out.kind = "rate" THEN [errs EXCEPT !.rate_limit = @ + 1]
    ELSE IF out.kind = "wait_timeout" THEN [errs EXCEPT !.timeout = @ + 1]
    ELSE [errs EXCEPT !.other = @ + 1]

\* the finally clause: on the last pass, with any error tallied, raise
FinallyRaises(attempt, errs) == attempt = MAX_RETRIES - 1 /\ errs # NoErrors

\* One pass of retry_operation's loop with the arguments bound at the call: the
\* attempt, then return (through the finally clause) or tally and sleep.
RetryPass(call, attempt, errs, out) ==
    LET errs1  == IF out.kind = "ok" THEN errs ELSE Tally(errs, out)
        result == IF out.kind # "ok" THEN "sleep"
                  ELSE IF FinallyRaises(attempt, errs1) THEN "raised" ELSE "ok"
    IN  [loop |-> [pc |-> "single", gid |-> "", call |-> call,
                   attempt |-> attempt + 1, retry_errors |-> errs1],
         ev   |-> [NoEv EXCEPT
                      !.kind = "attempt", !.path = "single", !.call = call,
                      !.attempt = attempt, !.outcome = out.kind,
                      !.retry_after = out.retry_after,
                      !.delay = IF result = "sleep" THEN RetryDelay(attempt, out) ELSE 0,
                      !.result = result, !.errors = errs1]]

\* ------------------------------------------------------------------ the flush

\* mutant: the flush reads the buffer and leaves it in place
PopGroupKeeps(groups, gid) == groups

\* self.media_groups.pop(media_group_id, [])
PopGroup(groups, gid) == [groups EXCEPT ![gid] = <<>>]

CountIn(id, s) == Cardinality({i \in 1..Len(s) : s[i].message_id = id})

Consume(base, messages) ==
    [id \in DOMAIN base |-> base[id] + CountIn(id, messages)]

\* process_media_group up to its first suspension, on the aggregator state
\* (groups, counts, sched) the caller hands over: the three pops, the
\* canonical batch, the first pass of the send loop.
Flush(gid, trigger, groups, counts, sched, out) ==
    LET messages == groups[gid]
        media    == Canonicalize(messages)
        sends    == messages # <<>> /\ media # <<>>
        p        == BatchPass(gid, trigger, media, 0, out)
        seen     == [NoEv EXCEPT
                        !.kind = "flush", !.gid = gid, !.trigger = trigger,
                        !.input = messages, !.age = age[gid], !.clock = clock,
                        !.stamps = stamps[gid], !.path = "batch",
                        !.result = IF messages = <<>> THEN "noop" ELSE "nothing"]
    IN  [groups |-> PopGroup(groups, gid),
         counts |-> [counts EXCEPT ![gid] = 0],
         sched  |-> sched \ {gid},
         sends  |-> sends,
         sleeps |-> sends /\ p.ev.result = "sleep",
         loop   |-> p.loop,
         ev     |-> IF ~sends THEN seen
                    ELSE [seen EXCEPT
                             !.call = p.ev.call, !.outcome = p.ev.outcome,
                             !.retry_after = p.ev.retry_after, !.delay = p.ev.delay,
                             !.result = p.ev.result]]

\* ------------------------------------------------------------------- actions

\* mutant: the gate does not run validate_config
GateSkipsValidation(msg) ==
    IF IntVal(msg.chat_id) # config.source_id THEN "not the source chat"
    ELSE IF ~Truthy(config.destination_id) THEN "destination not set"
    ELSE "ok"

\* the three checks that open forward_message
Gate(msg) ==
    IF IntVal(msg.chat_id) # config.source_id THEN "not the source chat"
    ELSE IF ~Truthy(config.destination_id) THEN "destination not set"
    ELSE validate_config(config)

\* mutant: the cancellation empties the job queue
CancelAllJobs(gid) == IF gid \in scheduled_media_groups THEN {} ELSE jobs

\* "Cancel existing timer if any": the jobs left in the queue
CancelJobs(gid) ==
    IF gid \in scheduled_media_groups THEN {j \in jobs : j.name # gid} ELSE jobs

\* mutant: the capacity check is off by one
ReachedMaxLate(count) == count > MAX_MEDIA_GROUP_SIZE

ReachedMax(count) == count >= MAX_MEDIA_GROUP_SIZE

\* mutant: every single message goes out as a one-item batch
SingleCallAsBatch(msg) ==
    [op |-> "send_media_group", chat_id |-> config.destination_id,
     media |-> <<get_media_input(msg)>>, message_id |-> 0]

\* forward_single_message: the call handed to retry_operation
SingleCall(msg) ==
    IF get_media_type(msg) # ""
    THEN [op |-> "send_media_group", chat_id |-> config.destination_id,
          media |-> <<get_media_input(msg)>>, message_id |-> 0]
    ELSE [op |-> "copy_message", chat_id |-> config.destination_id,
          media |-> <<>>, message_id |-> msg.message_id]

\* forward_message, up to its return or its first back-off sleep
forward_message(msg, out) ==
    /\ handler.pc = "idle"
    /\ UNCHANGED <<config, stored, last, horizon, clock>>
    /\ IF Gate(msg) # "ok"
       THEN /\ out = Ok
            /\ ev' = [NoEv EXCEPT !.kind = "rejected", !.chat = msg.chat_id,
                                  !.input = <<msg>>, !.reason = Gate(msg)]
            /\ UNCHANGED <<aggregator, handler, flights, sent, faults, age, stamps,
                           consumed>>
       ELSE IF msg.media_group_id # NoGroup
       THEN LET gid    == msg.media_group_id
                groups == [media_groups EXCEPT ![gid] = Append(@, msg)]
                counts == [media_group_counts EXCEPT ![gid] = @ + 1]
                jobs1  == CancelJobs(gid)
                known  == (msg.message_id :> 0) @@ consumed
            IN  /\ sent' = [sent EXCEPT ![gid] = @ + 1]
                /\ UNCHANGED <<flights, fired>>
                /\ IF ReachedMax(counts[gid])
                   THEN LET f == Flush(gid, "capacity", groups, counts,
                                       scheduled_media_groups, out)
                        IN  /\ out \in BatchOutcomes
                            /\ Allowed(out) /\ (f.sends \/ out = Ok)
                            /\ media_groups' = f.groups
                            /\ media_group_counts' = f.counts
                            /\ scheduled_media_groups' = f.sched
                            /\ jobs' = jobs1
                            /\ faults' = IF f.sends THEN Spend(out) ELSE faults
                            /\ age' = [age EXCEPT ![gid] = 0]
                            /\ stamps' = [stamps EXCEPT ![gid] = <<>>]
                            /\ consumed' = Consume(known, f.ev.input)
                            /\ handler' = IF f.sleeps THEN f.loop ELSE Idle
                            /\ ev' = [f.ev EXCEPT !.chat = msg.chat_id,
                                                  !.stamps = Append(@, clock)]
                   ELSE /\ out = Ok
                        /\ media_groups' = groups
                        /\ media_group_counts' = counts
                        /\ scheduled_media_groups' = scheduled_media_groups \cup {gid}
                        /\ jobs' = jobs1 \cup {[name |-> gid, left |-> MEDIA_GROUP_TIMEOUT]}
                        /\ age' = [age EXCEPT ![gid] = 0]
                        /\ stamps' = [stamps EXCEPT ![gid] = Append(@, clock)]
                        /\ consumed' = known
                        /\ ev' = [NoEv EXCEPT !.kind = "buffered", !.gid = gid,
                                              !.chat = msg.chat_id,
                                              !.input = <<msg>>]
                        /\ UNCHANGED <<handler, faults>>
       ELSE LET p == RetryPass(SingleCall(msg), 0, NoErrors, out)
            IN  /\ out \in RetryOutcomes /\ Allowed(out)
                /\ faults' = Spend(out)
                /\ handler' = IF p.ev.result = "sleep" THEN p.loop ELSE Idle
                /\ ev' = [p.ev EXCEPT !.kind = "single", !.chat = msg.chat_id,
                                      !.input = <<msg>>]
                /\ UNCHANGED <<aggregator, flights, sent, age, stamps, consumed>>

\* mutant: the due job leaves the queue and its callback is lost
JobDueLosesCallback(j) ==
    /\ j \in jobs /\ j.left = 0
    /\ jobs' = jobs \ {j}
    /\ ev' = [NoEv EXCEPT !.kind = "due", !.gid = j.name]
    /\ UNCHANGED <<config, stored, media_groups, media_group_counts,
                   scheduled_media_groups, fired, handler, flights, environment,
                   clock, age, stamps, consumed>>

\* A job of the queue comes due: the scheduler takes it off the queue and
\* hands its callback to the event loop, where it starts after whatever the
\* loop already has ready to run.
JobDue(j) ==
    /\ j \in jobs /\ j.left = 0
    /\ jobs' = jobs \ {j}
    /\ fired' = fired \cup {j.name}
    /\ ev' = [NoEv EXCEPT !.kind = "due", !.gid = j.name]
    /\ UNCHANGED <<config, stored, media_groups, media_group_counts,
                   scheduled_media_groups, handler, flights, environment, clock,
                   age, stamps, consumed>>

\* mutant: the callback also empties the job queue
ProcessClearsQueue(gid, out) ==
    LET f == Flush(gid, "timer", media_groups, media_group_counts,
                   scheduled_media_groups, out)
    IN  /\ gid \in fired
        /\ out \in BatchOutcomes
        /\ Allowed(out) /\ (f.sends \/ out = Ok)
        /\ fired' = fired \ {gid}
        /\ jobs' = {}
        /\ media_groups' = f.groups
        /\ media_group_counts' = f.counts
        /\ scheduled_media_groups' = f.sched
        /\ faults' = IF f.sends THEN Spend(out) ELSE faults
        /\ age' = [age EXCEPT ![gid] = 0]
        /\ stamps' = [stamps EXCEPT ![gid] = <<>>]
        /\ consumed' = Consume(consumed, f.ev.input)
        /\ flights' = IF f.sleeps THEN flights \cup {f.loop} ELSE flights
        /\ ev' = f.ev
        /\ UNCHANGED <<config, stored, handler, sent, last, horizon, clock>>

\* the callback of a fired job runs process_media_group for the group it names
process_media_group(gid, out) ==
    LET f == Flush(gid, "timer", media_groups, media_group_counts,
                   scheduled_media_groups, out)
    IN  /\ gid \in fired
        /\ out \in BatchOutcomes
        /\ Allowed(out) /\ (f.sends \/ out = Ok)
        /\ fired' = fired \ {gid}
        /\ UNCHANGED jobs
        /\ media_groups' = f.groups
        /\ media_group_counts' = f.counts
        /\ scheduled_media_groups' = f.sched
        /\ faults' = IF f.sends THEN Spend(out) ELSE faults
        /\ age' = [age EXCEPT ![gid] = 0]
        /\ stamps' = [stamps EXCEPT ![gid] = <<>>]
        /\ consumed' = Consume(consumed, f.ev.input)
        /\ flights' = IF f.sleeps THEN flights \cup {f.loop} ELSE flights
        /\ ev' = f.ev
        /\ UNCHANGED <<config, stored, handler, sent, last, horizon, clock>>

\* mutant: the retry sends what the group's buffer holds by now as well
BatchRetryRereads(fl, out) ==
    LET p == BatchPass(fl.gid, "timer",
                       fl.call.media \o Canonicalize(media_groups[fl.gid]),
                       fl.attempt, out)
    IN  /\ fl \in flights
        /\ out \in BatchOutcomes /\ Allowed(out)
        /\ faults' = Spend(out)
        /\ flights' = (flights \ {fl}) \cup
                      (IF p.ev.result = "sleep" THEN {p.loop} ELSE {})
        /\ ev' = p.ev
        /\ UNCHANGED <<config, stored, aggregator, handler, sent, last, horizon,
                       clock, age, stamps, consumed>>

\* a timer callback wakes from its back-off sleep and sends again
BatchRetry(fl, out) ==
    LET p == BatchPass(fl.gid, "timer", fl.call.media, fl.attempt, out)
    IN  /\ fl \in flights
        /\ out \in BatchOutcomes /\ Allowed(out)
        /\ faults' = Spend(out)
        /\ flights' = (flights \ {fl}) \cup
                      (IF p.ev.result = "sleep" THEN {p.loop} ELSE {})
        /\ ev' = p.ev
        /\ UNCHANGED <<config, stored, aggregator, handler, sent, last, horizon,
                       clock, age, stamps, consumed>>

\* The update handler wakes from a back-off sleep: in the capacity flush's
\* loop, or in retry_operation, where the finally clause of the pass that
\* slept runs first and the loop ends after MAX_RETRIES passes.
HandlerResume(out) ==
    /\ handler.pc # "idle"
    /\ UNCHANGED <<config, stored, aggregator, flights, sent, last, horizon, clock,
                   age, stamps, consumed>>
    /\ IF handler.pc = "flush"
       THEN LET p == BatchPass(handler.gid, "capacity", handler.call.media,
                               handler.attempt, out)
            IN  /\ out \in BatchOutcomes /\ Allowed(out)
                /\ faults' = Spend(out)
                /\ handler' = IF p.ev.result = "sleep" THEN p.loop ELSE Idle
                /\ ev' = p.ev
       ELSE IF FinallyRaises(handler.attempt - 1, handler.retry_errors)
               \/ handler.attempt >= MAX_RETRIES
       THEN /\ out = Ok
            /\ handler' = Idle
            /\ ev' = [NoEv EXCEPT
                         !.kind = "single_end", !.path = "single",
                         !.call = [handler.call EXCEPT !.op = ""],
                         !.attempt = handler.attempt,
                         !.errors = handler.retry_errors,
                         !.result = IF FinallyRaises(handler.attempt - 1,
                                                     handler.retry_errors)
                                    THEN "raised" ELSE "none"]
            /\ UNCHANGED faults
       ELSE LET p == RetryPass(handler.call, handler.attempt,
                               handler.retry_errors, out)
            IN  /\ out \in RetryOutcomes /\ Allowed(out)
                /\ faults' = Spend(out)
                /\ handler' = IF p.ev.result = "sleep" THEN p.loop ELSE Idle
                /\ ev' = p.ev

\* one second passes; a due timer fires and its callback runs before the
\* clock moves on
Tick ==
    /\ jobs # {}
    /\ \A j \in jobs : j.left > 0
    /\ fired = {}
    /\ jobs' = {[j EXCEPT !.left = @ - 1] : j \in jobs}
    /\ clock' = IF clock < horizon THEN clock + 1 ELSE clock
    /\ age' = [g \in Groups |->
                 IF media_groups[g] = <<>> THEN 0
                 ELSE Min(age[g] + 1, MEDIA_GROUP_TIMEOUT + 1)]
    /\ ev' = [NoEv EXCEPT !.kind = "tick"]
    /\ UNCHANGED <<config, stored, media_groups, media_group_counts,
                   scheduled_media_groups, fired, handler, flights, environment,
                   stamps, consumed>>

\* save_config writes the whole configuration, or fails with an I/O error
save_config(cfg, save_ok) == IF save_ok THEN cfg ELSE stored

CmdInputs == {[ok |-> FALSE, v |-> 0]} \cup {[ok |-> TRUE, v |-> n] : n \in CmdArgs}

\* set_source and set_destination: owner check, argument check, write, save
SetField(field, authorized, arg, save_ok) ==
    /\ handler.pc = "idle"
    /\ IF authorized /\ arg.ok
       THEN /\ save_ok \/ faults > 0
            /\ config' = [config EXCEPT ![field] = IntVal(arg.v)]
            /\ stored' = save_config(config', save_ok)
            /\ faults' = IF save_ok THEN faults ELSE faults - 1
            /\ ev' = [NoEv EXCEPT !.kind = "command", !.reason = field,
                                  !.result = IF save_ok THEN "saved" ELSE "save failed"]
       ELSE /\ save_ok
            /\ UNCHANGED <<config, stored, faults>>
            /\ ev' = [NoEv EXCEPT !.kind = "command", !.reason = field,
                                  !.result = "refused"]
    /\ UNCHANGED <<aggregator, handler, flights, sent, last, horizon, clock, age,
                   stamps, consumed>>

set_source(authorized, arg, save_ok) == SetField("source_id", authorized, arg, save_ok)

set_destination(authorized, arg, save_ok) ==
    SetField("destination_id", authorized, arg, save_ok)

\* a caller asks the gate for its verdict
validate(cfg) ==
    /\ handler.pc = "idle"
    /\ cfg = config
    /\ ev' = [NoEv EXCEPT !.kind = "validated", !.reason = validate_config(cfg)]
    /\ UNCHANGED <<config, stored, aggregator, handler, flights, environment, clock,
                   age, stamps, consumed>>

\* ------------------------------------------------------------ specifications

\* what the environment may deliver next: a single message, or the next
\* message of a stream that has not ended, from any chat
Inbound ==
    UNION {SingleMsgs(c) : c \in Chats}
    \cup {StreamMsg(g, sent[g] + 1, c) : g \in {h \in Groups : sent[h] < last[h]},
                                          c \in Chats}

Valid == [source_id |-> IntVal(-1), destination_id |-> IntVal(-2)]

\* The state after construction with the configuration cfg on file and, when
\* buffer is not empty, after its messages (fewer than the maximum group size)
\* arrived for the first group within the first second.
Started(cfg, buffer) ==
    /\ config = cfg
    /\ stored = cfg
    /\ media_groups = [g \in Groups |-> IF g = "g1" THEN buffer ELSE <<>>]
    /\ media_group_counts = [g \in Groups |-> IF g = "g1" THEN Len(buffer) ELSE 0]
    /\ scheduled_media_groups = IF buffer = <<>> THEN {} ELSE {"g1"}
    /\ jobs = IF buffer = <<>> THEN {}
              ELSE {[name |-> "g1", left |-> MEDIA_GROUP_TIMEOUT]}
    /\ fired = {}
    /\ handler = Idle
    /\ flights = {}
    /\ clock = 0
    /\ age = [g \in Groups |-> 0]
    /\ stamps = [g \in Groups |-> IF g = "g1" THEN [i \in 1..Len(buffer) |-> 0] ELSE <<>>]
    /\ consumed = [id \in {buffer[i].message_id : i \in 1..Len(buffer)} |-> 0]
    /\ ev = IF buffer = <<>> THEN NoEv
            ELSE [NoEv EXCEPT !.kind = "buffered", !.gid = "g1", !.chat = -1]

Streams(n1, n2) == [g \in Groups |-> IF g = "g1" THEN n1 ELSE n2]

Receive == \E msg \in Inbound, out \in RetryOutcomes : forward_message(msg, out)

Due == \E j \in jobs : JobDue(j)

Fire == \E gid \in fired, out \in BatchOutcomes : process_media_group(gid, out)

Retry == \E fl \in flights, out \in BatchOutcomes : BatchRetry(fl, out)

Resume == \E out \in RetryOutcomes : HandlerResume(out)

Admin ==
    \E a \in BOOLEAN, arg \in CmdInputs, ok \in BOOLEAN :
        \/ set_source(a, arg, ok)
        \/ set_destination(a, arg, ok)

Validate == validate(config)

\* Fresh start, full streams, a transport that never fails, no administrator.
Init ==
    /\ Started(Valid, <<>>)
    /\ sent = Streams(0, 0)
    /\ last = Streams(MaxMsgs, MaxOther)
    /\ faults = 0
    /\ horizon = 0

Next == Receive \/ Due \/ Fire \/ Tick

Spec == Init /\ [][Next]_vars

\* The first group already holds the head of its stream, three short of the
\* maximum group size, its timer pending; the rest of its stream and one
\* message of the second group are still to come.
Prefix == [k \in 1..(MAX_MEDIA_GROUP_SIZE - 3) |-> StreamMsg("g1", k, -1)]

InitLive ==
    /\ Started(Valid, Prefix)
    /\ sent = Streams(Len(Prefix), 0)
    /\ last = Streams(MaxMsgs, 1)
    /\ faults = 0
    /\ horizon = 0

\* The event loop gets to run the callback of a timer that fired. With a
\* transport that never fails the callback can start exactly while fired is
\* not empty, so this is weak fairness of Fire with its enabling condition
\* written out.
FairFire == []<>(fired = {}) \/ []<><<Fire>>_vars

\* Time passes, a timer that is due leaves the queue, its callback runs.
Fairness == WF_vars(Tick) /\ WF_vars(Due) /\ FairFire

SpecLive == InitLive /\ [][Next]_vars /\ Fairness

\* Fresh start, one short stream, the clock counted.
InitTimed ==
    /\ Started(Valid, <<>>)
    /\ sent = Streams(0, 0)
    /\ last = Streams(MaxBurst + 1, 1)
    /\ faults = 0
    /\ horizon = MaxClock

SpecTimed == InitTimed /\ [][Next]_vars

\* Fresh start, short streams, a transport that fails.
InitFaulty ==
    /\ Started(Valid, <<>>)
    /\ sent = Streams(0, 0)
    /\ last = Streams(MaxBurst, 1)
    /\ faults = MaxFaults
    /\ horizon = 0

NextFaulty == Receive \/ Due \/ Fire \/ Retry \/ Resume \/ Tick

SpecFaulty == InitFaulty /\ [][NextFaulty]_vars

\* Fresh start, short streams, an administrator at work.
InitAdmin ==
    /\ Started(Valid, <<>>)
    /\ sent = Streams(0, 0)
    /\ last = Streams(MaxBurst, 1)
    /\ faults = 0
    /\ horizon = 0

NextAdmin == Receive \/ Due \/ Fire \/ Tick \/ Admin

SpecAdmin == InitAdmin /\ [][NextAdmin]_vars

\* The first group holds stream messages that arrived in an arbitrary order;
\* the streams have ended.
RECURSIVE Arrivals(_)
Arrivals(n) ==
    IF n = 0 THEN {<<>>}
    ELSE {Append(s, StreamMsg("g1", k, -1)) :
             s \in {t \in Arrivals(n - 1) : Len(t) = n - 1},
             k \in 1..PoolSize}
         \cup Arrivals(n - 1)

Distinct(s) == \A i, j \in 1..Len(s) : i # j => s[i] # s[j]

InitCanon ==
    /\ \E buffer \in {s \in Arrivals(MaxLen) : s # <<>> /\ Distinct(s)} :
          Started(Valid, buffer)
    /\ sent = Streams(PoolSize, 0)
    /\ last = Streams(PoolSize, 0)
    /\ faults = 0
    /\ horizon = 0

NextCanon == Due \/ Fire \/ Tick

SpecCanon == InitCanon /\ [][NextCanon]_vars

\* Any configuration on file, an administrator, a caller of the gate, a disk
\* that may fail once.
Optional == {None} \cup {IntVal(n) : n \in CmdArgs}

InitConfig ==
    /\ \E cfg \in [source_id : Optional, destination_id : Optional] :
          Started(cfg, <<>>)
    /\ sent = Streams(0, 0)
    /\ last = Streams(0, 0)
    /\ faults = 1
    /\ horizon = 0

NextConfig == Admin \/ Validate

SpecConfig == InitConfig /\ [][NextConfig]_vars

\* ------------------------------------------------------------------- claims

Buffered(id) ==
    CountIn(id, media_groups["g1"]) + CountIn(id, media_groups["g2"])

\* C1: every message accepted into a group buffer is, at any time, either
\* still in exactly one buffer and taken by no flush, or in no buffer and
\* taken by exactly one flush: no message is flushed twice, none leaves the
\* buffer unflushed, one flush ends each lifecycle.
C1_FlushedExactlyOnce ==
    /\ \A id \in DOMAIN consumed : consumed[id] + Buffered(id) = 1
    /\ ev.kind = "flush" =>
          /\ media_groups[ev.gid] = <<>>
          /\ \A i \in 1..Len(ev.input) : consumed[ev.input[i].message_id] = 1

\* a timer flush of the first group's second lifecycle, holding two messages
C1_SecondLifecycle ==
    /\ ev.kind = "flush" /\ ev.trigger = "timer" /\ ev.gid = "g1"
    /\ Len(ev.input) >= 2
    /\ 101 \in DOMAIN consumed /\ CountIn(101, ev.input) = 0

\* C2 as stated: a group has at most one pending timer, the one its most
\* recent message started (its remaining time is the window less the time
\* since that message); a timer flush finds the group's messages and happens
\* exactly one window (2 s) after the most recent of them was buffered.
C2_DebounceReset ==
    /\ \A g \in Groups : Cardinality({j \in jobs : j.name = g}) <= 1
    /\ \A j \in jobs :
          /\ media_groups[j.name] # <<>>
          /\ j.left = MEDIA_GROUP_TIMEOUT - age[j.name]
    /\ (ev.kind = "flush" /\ ev.trigger = "timer") =>
          /\ ev.input # <<>>
          /\ ev.age = MEDIA_GROUP_TIMEOUT
          /\ ev.clock < horizon =>
                ev.clock = ev.stamps[Len(ev.stamps)] + MEDIA_GROUP_TIMEOUT

\* the undisturbed case: messages at 0 s, 1 s and 3 s, flushed by the timer
\* at 5 s
C2_FlushAtFive ==
    /\ ev.kind = "flush" /\ ev.trigger = "timer"
    /\ ev.stamps = <<0, 1, 3>>
    /\ ev.clock = 5

\* C3: a group never rests with its count or its buffer at the maximum (10):
\* the step that handles the tenth message flushes all ten, that message
\* included, and leaves the group with no buffer, no scheduled mark and no
\* pending timer; no flush takes and no transport call carries more than 10.
C3_CapacityTrigger ==
    /\ \A g \in Groups :
          /\ media_group_counts[g] < MAX_MEDIA_GROUP_SIZE
          /\ Len(media_groups[g]) < MAX_MEDIA_GROUP_SIZE
    /\ (ev.kind = "flush" /\ ev.trigger = "capacity") =>
          /\ Len(ev.input) = MAX_MEDIA_GROUP_SIZE
          /\ ev.input[Len(ev.input)].message_id =
                StreamMsg(ev.gid, sent[ev.gid], ev.chat).message_id
          /\ media_groups[ev.gid] = <<>>
          /\ ev.gid \notin scheduled_media_groups
          /\ \A j \in jobs : j.name # ev.gid
    /\ Len(ev.input) <= MAX_MEDIA_GROUP_SIZE
    /\ Len(ev.call.media) <= MAX_MEDIA_GROUP_SIZE

\* the tenth message of a group arrives and the ten are sent at once
C3_CapacityFlush ==
    /\ ev.kind = "flush" /\ ev.trigger = "capacity"
    /\ Len(ev.input) = MAX_MEDIA_GROUP_SIZE
    /\ ev.result = "sent"

\* The canonical batch, described from the flushed messages alone.
Earlier(a, b) ==
    a.date < b.date \/ (a.date = b.date /\ a.message_id < b.message_id)

MediaBearing(input) ==
    {input[i] : i \in {k \in 1..Len(input) :
                          input[k].kind \in {"photo", "video", "document", "audio"}}}

Tokens(input) == {m.file_id : m \in MediaBearing(input)}

\* the earliest message of a non-empty set of messages
First(msgs) == CHOOSE m \in msgs : \A n \in msgs : n = m \/ Earlier(m, n)

\* the message an output item stands for: the first to carry its token
Source(input, tok) == First({m \in MediaBearing(input) : m.file_id = tok})

Kept(input) == {Source(input, tok) : tok \in Tokens(input)}

Flushed == ev.kind = "flush" /\ ev.input # <<>>

\* C4: whatever order a group's messages arrived in, the batch its flush hands
\* to the transport is ascending by (timestamp, message id) of the messages
\* its items stand for, and the group goes out whole in one call: the call
\* carries every content token of the group, and nothing of the flush is left
\* to send afterwards.
C4_SortedSingleBatch ==
    Flushed =>
        LET media == ev.call.media
        IN  /\ {media[i].media : i \in 1..Len(media)} = Tokens(ev.input)
            /\ \A i, j \in 1..Len(media) :
                  i < j => Earlier(Source(ev.input, media[i].media),
                                   Source(ev.input, media[j].media))
            /\ Tokens(ev.input) # {} =>
                  ev.call.op = "send_media_group" /\ ev.result = "sent"
            /\ handler = Idle /\ flights = {}

\* three messages that arrived latest-stamped first, sent as three items
C4_ArrivedBackwards ==
    /\ Flushed /\ ev.result = "sent"
    /\ Len(ev.input) = 3 /\ Len(ev.call.media) = 3
    /\ Earlier(ev.input[3], ev.input[2]) /\ Earlier(ev.input[2], ev.input[1])

\* C5 as stated: whenever any message of the flushed group has a caption, item
\* 0 carries the first such caption in sorted order and no other item has one.
C5_CaptionOfAnyMessage ==
    LET media    == ev.call.media
        captions == {m \in {ev.input[i] : i \in 1..Len(ev.input)} : m.caption # ""}
    IN  (Flushed /\ captions # {}) =>
            /\ media # <<>>
            /\ media[1].caption = First(captions).caption
            /\ \A i \in 2..Len(media) : media[i].caption = ""

\* C5, amended: whenever a message kept by deduplication has a caption, item 0
\* carries the first caption of the kept messages in sorted order and no other
\* item has one; when no kept message has a caption, no item has one.
C5_CaptionOfKeptMessage ==
    LET media    == ev.call.media
        captions == {m \in Kept(ev.input) : m.caption # ""}
    IN  Flushed =>
            /\ captions # {} =>
                  /\ media # <<>>
                  /\ media[1].caption = First(captions).caption
            /\ captions = {} => \A i \in 1..Len(media) : media[i].caption = ""
            /\ \A i \in 2..Len(media) : media[i].caption = ""

\* item 0 carries a caption that a later item's message brought
C5_CaptionMoved ==
    /\ Flushed /\ Len(ev.call.media) >= 2
    /\ ev.call.media[1].caption # ""
    /\ Source(ev.input, ev.call.media[1].media).caption = ""

\* C6: the batch of a flushed group has exactly one item per content token of
\* its media-bearing messages, however often a token repeats, and the item is
\* the first message in sorted order to carry the token (it has that
\* message's kind).
C6_Deduplication ==
    Flushed =>
        LET media == ev.call.media
        IN  /\ Len(media) = Cardinality(Tokens(ev.input))
            /\ \A tok \in Tokens(ev.input) :
                  \E i \in 1..Len(media) :
                      /\ media[i].media = tok
                      /\ media[i].type = Source(ev.input, tok).kind
                      /\ \A j \in 1..Len(media) : media[j].media = tok => j = i

\* a token arrives as a photo and, stamped earlier, as a video: one video item
C6_RepeatDropped ==
    /\ Flushed
    /\ Len(ev.call.media) < Cardinality(MediaBearing(ev.input))
    /\ \E m \in MediaBearing(ev.input) :
          /\ m.kind # Source(ev.input, m.file_id).kind
          /\ \E i \in 1..Len(ev.call.media) :
                /\ ev.call.media[i].media = m.file_id
                /\ ev.call.media[i].type = Source(ev.input, m.file_id).kind

\* C7: on the single-item path, a generic (not rate-limit) failure of attempt
\* i is followed by a sleep of RETRY_DELAY * 2^i; attempts are numbered below
\* MAX_RETRIES; the executor ends only after MAX_RETRIES attempts, and after
\* MAX_RETRIES generic failures it ends by raising, with no further call and
\* the handler back at rest.
C7_RetryBudget ==
    /\ (ev.path = "single" /\ ev.kind \in {"single", "attempt"}) =>
          /\ ev.attempt < MAX_RETRIES
          /\ ev.outcome \in {"error", "timeout", "wait_timeout"} =>
                /\ ev.result = "sleep"
                /\ ev.delay = RETRY_DELAY * Pow2(ev.attempt)
                /\ handler.pc = "single" /\ handler.attempt = ev.attempt + 1
    /\ ev.kind = "single_end" =>
          /\ ev.attempt = MAX_RETRIES
          /\ ev.errors.rate_limit = 0 =>
                /\ ev.errors.timeout + ev.errors.other = MAX_RETRIES
                /\ ev.result = "raised"
                /\ ev.call.op = ""
                /\ handler = Idle

\* three generic failures in a row, and the executor has raised
C7_ThreeFailures ==
    /\ ev.kind = "single_end" /\ ev.result = "raised"
    /\ ev.errors = [rate_limit |-> 0, timeout |-> 0, other |-> MAX_RETRIES]

\* C8 as stated: on either path, when the transport answers "retry after N
\* seconds" to attempt i, below the last attempt, the sleep before the next
\* attempt is N * (i + 1).
C8_UniformRateLimitBackoff ==
    (ev.outcome = "rate" /\ ev.attempt < MAX_RETRIES - 1) =>
        ev.delay = ev.retry_after * (ev.attempt + 1)

\* the steps of forward_message, by what they record
Handled(e) ==
    \/ e.kind \in {"rejected", "buffered", "single"}
    \/ e.kind = "flush" /\ e.trigger = "capacity"

\* two different negative integers
WellFormed(cfg) ==
    /\ cfg.source_id.isint /\ cfg.source_id.v < 0
    /\ cfg.destination_id.isint /\ cfg.destination_id.v < 0
    /\ cfg.source_id.v # cfg.destination_id.v

\* a message from chat must not be forwarded under the configuration
MustReject(chat) ==
    \/ ~config.source_id.isint
    \/ config.source_id.v # chat
    \/ config.destination_id = None
    \/ ~WellFormed(config)

\* C9: a step of forward_message for a message that is not from the
\* configured source, or that arrives while the destination is unset or the
\* configuration is not two different negative integers, leaves the buffers,
\* the counts, the scheduled marks, the timers and the suspended sends as
\* they were and makes no transport call.
C9_GateFrame ==
    [][(Handled(ev') /\ MustReject(ev'.chat)) =>
          /\ UNCHANGED <<aggregator, handler, flights, consumed>>
          /\ ev'.call = NoCall]_vars

\* a message from the source is turned away for a positive destination
\* while a group is buffered and its timer is pending
C9_RejectedWhilePending ==
    /\ ev.kind = "rejected"
    /\ ev.reason = "Invalid destination channel ID format"
    /\ IntVal(ev.chat) = config.source_id
    /\ media_groups["g1"] # <<>> /\ jobs # {}

\* the reasons of the five that apply to a configuration
Applicable(cfg) ==
    (IF cfg.source_id = None THEN {"MissingSource"} ELSE {})
    \cup (IF cfg.destination_id = None THEN {"MissingDestination"} ELSE {})
    \cup (IF cfg.source_id.isint /\ cfg.destination_id.isint
             /\ cfg.source_id.v = cfg.destination_id.v
          THEN {"SourceEqualsDestination"} ELSE {})
    \cup (IF cfg.source_id.isint /\ cfg.source_id.v >= 0
          THEN {"MalformedSource"} ELSE {})
    \cup (IF cfg.destination_id.isint /\ cfg.destination_id.v >= 0
          THEN {"MalformedDestination"} ELSE {})

\* the reason each message of validate_config stands for
ReasonOf(message) ==
    IF message = "Source and destination channels cannot be the same"
    THEN "SourceEqualsDestination"
    ELSE IF message = "Invalid source channel ID format" THEN "MalformedSource"
    ELSE IF message = "Invalid destination channel ID format"
    THEN "MalformedDestination"
    ELSE "none"

\* C10 as stated: validate succeeds exactly for two different negative
\* integers, and a failure names a reason that applies to the configuration:
\* an absent field is reported as missing, equal present fields as equal, a
\* present field that is not negative as malformed.
C10_SpecificReason ==
    ev.kind = "validated" =>
        /\ ev.reason = "ok" <=> WellFormed(config)
        /\ ev.reason # "ok" => ReasonOf(ev.reason) \in Applicable(config)

\* a delivery has used up its attempts: the batch loop gave up, or
\* retry_operation raised
Exhausted(e) ==
    \/ e.path = "batch" /\ e.result = "failed"
    \/ e.kind = "single_end" /\ e.result = "raised"

\* C11: the step in which a delivery exhausts its retries (after MAX_RETRIES
\* attempts, never more) changes no group's buffer, count, scheduled mark or
\* timer and no configuration, and leaves the program where a successful
\* last attempt would have left it: the handler at rest, or the timer
\* callback gone, every other suspended send as it was.  No failure is
\* recorded anywhere that later steps read.
C11_FailureIsolation ==
    [][/\ ev'.path = "batch" => ev'.attempt < MAX_RETRIES
       /\ Exhausted(ev') =>
             /\ UNCHANGED <<config, stored, aggregator, age, stamps, consumed>>
             /\ IF ev'.kind = "single_end" \/ ev'.trigger = "capacity"
                THEN handler' = Idle /\ flights' = flights
                ELSE /\ handler' = handler
                     /\ flights' \subseteq flights
                     /\ Cardinality(flights') = Cardinality(flights) - 1]_vars

\* the first group's batch is given up while the second group is buffered
\* and its timer pending
C11_FailedBesidePending ==
    /\ ev.path = "batch" /\ ev.result = "failed" /\ ev.gid = "g1"
    /\ media_groups["g2"] # <<>>
    /\ \E j \in jobs : j.name = "g2"

\* forward_message has just handled one plain text message that belongs to
\* no group
TextHandled(e) ==
    /\ e.kind \in {"rejected", "single"}
    /\ Len(e.input) = 1
    /\ e.input[1].kind = "text" /\ e.input[1].media_group_id = NoGroup

\* C12: when forward_message handles a text message without a group from
\* the configured source under a valid configuration and the transport
\* answers the first attempt with success, the step makes exactly one
\* copy_message call for that message to the destination, on attempt 0, with
\* no batch call, no sleep and no retry left pending, and it leaves every
\* buffer, count, scheduled mark, timer and suspended send untouched.
C12_SingleTextEndToEnd ==
    [][(TextHandled(ev') /\ ~MustReject(ev'.chat) /\ ev'.outcome \in {"", "ok"}) =>
          /\ ev'.kind = "single" /\ ev'.outcome = "ok"
          /\ ev'.call = [op |-> "copy_message", chat_id |-> config.destination_id,
                         media |-> <<>>, message_id |-> ev'.input[1].message_id]
          /\ ev'.attempt = 0 /\ ev'.delay = 0 /\ ev'.result = "ok"
          /\ handler' = Idle
          /\ UNCHANGED <<aggregator, flights, consumed>>]_vars

\* a text message is copied at the first attempt while a group is buffered
C12_TextCopiedOnce ==
    /\ ev.kind = "single" /\ ev.result = "ok" /\ ev.attempt = 0
    /\ ev.call.op = "copy_message"
    /\ media_groups["g1"] # <<>> /\ jobs # {}

\* timers of a group: its jobs in the queue, and its fired callback if any
Timers(g) ==
    Cardinality({j \in jobs : j.name = g}) + (IF g \in fired THEN 1 ELSE 0)

\* C13 as stated: between steps, a group's buffer is non-empty exactly when
\* the group is recorded as scheduled and has exactly one timer (pending, or
\* fired with its callback about to run); the tracked count is the number of
\* buffered messages; a group without a buffer has no count, no scheduled
\* mark and no timer.
C13_PendingGroupConsistency ==
    \A g \in Groups :
        /\ media_groups[g] # <<>> <=>
              (g \in scheduled_media_groups /\ Timers(g) = 1)
        /\ media_group_counts[g] = Len(media_groups[g])
        /\ media_groups[g] = <<>> =>
              (g \notin scheduled_media_groups /\ Timers(g) = 0)

\* a flush of group g has begun and is suspended in its send loop
InFlight(g) == \E fl \in flights : fl.gid = g

\* C14: a message of a group buffered while a flush of that group is
\* suspended in its send loop leaves the batch being sent as it is; it goes
\* to a buffer that holds no message a flush has taken (alone, with count 1,
\* when it is the first since the flush began) and gets a timer of a full
\* window; every retry of the suspended flush sends the batch it first
\* sent, whatever has been buffered since.
C14_FlushArrivalRace ==
    [][/\ (ev'.kind = "buffered" /\ InFlight(ev'.gid)) =>
             LET g == ev'.gid
             IN  /\ flights' = flights
                 /\ [name |-> g, left |-> MEDIA_GROUP_TIMEOUT] \in jobs'
                 /\ g \in scheduled_media_groups'
                 /\ \A i \in 1..Len(media_groups'[g]) :
                       consumed'[media_groups'[g][i].message_id] = 0
                 /\ media_groups[g] = <<>> =>
                       /\ media_groups'[g] = ev'.input
                       /\ media_group_counts'[g] = 1
       /\ (ev'.kind = "attempt" /\ ev'.path = "batch" /\ ev'.trigger = "timer") =>
             \E fl \in flights :
                 /\ fl.gid = ev'.gid
                 /\ fl.call.media = ev'.call.media
                 /\ fl.attempt = ev'.attempt]_vars

\* the second lifecycle of the first group is flushed while the flush of its
\* first lifecycle still sleeps between attempts
C14_LaterSeparateFlush ==
    /\ ev.kind = "flush" /\ ev.gid = "g1" /\ ev.result = "sent"
    /\ \E fl \in flights : fl.gid = "g1" /\ fl.call.media # ev.call.media

\* C15: a flush that finds no buffered message for its group makes no
\* transport call, suspends nothing, and leaves every buffer, count,
\* scheduled mark and pending job, the configuration and every suspended send
\* as they were.
C15_EmptyFlushNoOp ==
    [][(ev'.kind = "flush" /\ ev'.input = <<>>) =>
          /\ ev'.result = "noop" /\ ev'.call = NoCall /\ ev'.delay = 0
          /\ UNCHANGED <<config, stored, media_groups, media_group_counts,
                         scheduled_media_groups, jobs, handler, flights, faults,
                         consumed>>]_vars

\* a callback finds its group already flushed while the other group waits
\* for its timer
C15_NothingToFlush ==
    /\ ev.kind = "flush" /\ ev.trigger = "timer" /\ ev.input = <<>>
    /\ \E j \in jobs : j.name # ev.gid

\* C16 as stated: on either path, a timeout of attempt i, below the last
\* attempt, is followed by a sleep of 2 * RETRY_DELAY * 2^i, and any other
\* failure that is not a rate limit by a sleep of RETRY_DELAY * 2^i.
C16_TimeoutBackoff ==
    (ev.result = "sleep" /\ ev.attempt < MAX_RETRIES - 1) =>
        /\ ev.outcome \in {"timeout", "wait_timeout"} =>
              ev.delay = 2 * RETRY_DELAY * Pow2(ev.attempt)
        /\ ev.outcome = "error" => ev.delay = RETRY_DELAY * Pow2(ev.attempt)

\* C17: a step that is about group G (a message of G buffered or flushing G
\* at capacity, G's timer coming due, G's flush or a retry of it) or about a
\* single message leaves the buffer, the count, the scheduled mark, the
\* pending jobs and the fired callback of every other group as they were;
\* a job leaves the queue, other than by coming due, only in a step that
\* handles a message of the group it names.
C17_CrossGroupIndependence ==
    [][ev'.kind # "tick" =>
          /\ \A h \in Groups \ {ev'.gid} :
                /\ media_groups'[h] = media_groups[h]
                /\ media_group_counts'[h] = media_group_counts[h]
                /\ h \in scheduled_media_groups' <=> h \in scheduled_media_groups
                /\ {j \in jobs' : j.name = h} = {j \in jobs : j.name = h}
                /\ h \in fired' <=> h \in fired
          /\ \A j \in jobs \ jobs' :
                /\ j.name = ev'.gid
                /\ ev'.kind = "due" \/ Handled(ev')]_vars

\* a second message of the first group resets its timer while the second
\* group's timer has a second left to run
C17_OtherTimerRuns ==
    /\ ev.kind = "buffered" /\ ev.gid = "g1"
    /\ Len(media_groups["g1"]) >= 2
    /\ [name |-> "g2", left |-> 1] \in jobs
    /\ media_groups["g2"] # <<>>

\* C18 as stated: after any set-source or set-destination command, whether
\* it was refused, saved or failed to save, the configuration in memory is
\* the configuration on file.
C18_ConfigDurable ==
    ev.kind = "command" => config = stored

\* C19 as stated: when an attempt of retry_operation succeeds, after any
\* number of failed attempts below MAX_RETRIES, the executor returns the
\* result and raises nothing, having made one attempt more than had failed.
C19_RetrySuccess ==
    (ev.path = "single" /\ ev.outcome = "ok") =>
        /\ ev.result = "ok"
        /\ ev.attempt = ev.errors.rate_limit + ev.errors.timeout + ev.errors.other

\* C20 as stated: every transport call, first attempt or retry, single item
\* or batch, goes to a destination that at that moment is set, negative and
\* different from the configured source.
C20_DestinationValidAtSend ==
    ev.call.op # "" =>
        /\ ev.call.chat_id.isint /\ ev.call.chat_id.v < 0
        /\ ev.call.chat_id # config.source_id

\* every message identifier of the two streams
StreamIds ==
    {StreamMsg("g1", k, -1).message_id : k \in 1..MaxMsgs}
    \cup {StreamMsg("g2", 1, -1).message_id}

\* C21: provided time passes, due timers fire and their callbacks run, every
\* message accepted into a group buffer is eventually taken by a flush,
\* however many later messages of its group reset the timer before that.
\* A buffer never outlasts a step with the maximum group size in it, so a
\* buffered message sees fewer than that many resets.
C21_BufferedEventuallyFlushed ==
    /\ [](\A g \in Groups : Len(media_groups[g]) < MAX_MEDIA_GROUP_SIZE)
    /\ \A id \in StreamIds :
          (id \in DOMAIN consumed /\ consumed[id] = 0)
              ~> (id \in DOMAIN consumed /\ consumed[id] = 1)

\* the first message of a group is flushed by the timer after eight later
\* messages of the group reset it
C21_FlushedAfterResets ==
    /\ ev.kind = "flush" /\ ev.trigger = "timer" /\ ev.gid = "g1"
    /\ Len(ev.input) = MAX_MEDIA_GROUP_SIZE - 1
    /\ ev.input[1].message_id = 101 /\ consumed[101] = 1

====
